---- MODULE Spec2Model ----
(***************************************************************************)
(* Guitar Practice Picker (src/main.py): the session state, the routine    *)
(* operations and the two persistence backends, as a state machine.        *)
(*                                                                         *)
(* Python values are modelled as follows.  A str is a TLA+ string; a dict  *)
(* is a function whose DOMAIN is its key set; a list is a sequence; None   *)
(* is the empty tuple and a value that may be None is a tuple of length    *)
(* at most one (<<>> for None, <<v>> for v).                               *)
(***************************************************************************)
EXTENDS Integers, Sequences, FiniteSets, TLC

VARIABLES
    supabase,             \* TRUE: get_supabase_client() returned a client; FALSE: None
    table,                \* remote table routines_data: <<>> or <<row>> (row id 1)
    file,                 \* routines.json: <<>> (does not exist) or <<text>>
    ss_keys,              \* the keys present in st.session_state
    routines,             \* st.session_state.routines
    next_id,              \* st.session_state.next_id
    selected_routine_id,  \* st.session_state.selected_routine_id
    drawn_routine_id,     \* st.session_state.drawn_routine_id
    failures,             \* the number of store accesses that have failed so far
    result,               \* what the last operation did: its write, its return value
    hist,                 \* history: the last call and its arguments (kept by SpecF)
    assigned,             \* history: the ids add_routine has assigned in this session
    next_id0,             \* history: next_id as init_state set it in this session
    creates               \* history: the number of add_routine calls in this session

vars == <<supabase, table, file, ss_keys, routines, next_id, selected_routine_id,
          drawn_routine_id, failures, result, hist, assigned, next_id0, creates>>

-----------------------------------------------------------------------------
(* Bounds of the model *)

\* add_routine is explored while next_id is below this cap
MaxNextId == 6

\* at most this many store accesses (reads or writes) fail in one behaviour
MaxFailures == 1

-----------------------------------------------------------------------------
(* Python values *)

None == <<>>

Some(v) == <<v>>

Range(s) == {s[i] : i \in 1..Len(s)}

\* the characters str.strip() removes
Whitespace == {" ", "\t", "\n"}

RECURSIVE lstrip(_)
lstrip(s) ==
    IF Len(s) > 0 /\ SubSeq(s, 1, 1) \in Whitespace
    THEN lstrip(SubSeq(s, 2, Len(s)))
    ELSE s

RECURSIVE rstrip(_)
rstrip(s) ==
    IF Len(s) > 0 /\ SubSeq(s, Len(s), Len(s)) \in Whitespace
    THEN rstrip(SubSeq(s, 1, Len(s) - 1))
    ELSE s

\* str.strip()
strip(s) == rstrip(lstrip(s))

\* dict.get(key, default)
Get(d, key, default) == IF key \in DOMAIN d THEN d[key] ELSE default

\* Python's `a or b` on strings: the empty string is falsy
StrOr(a, b) == IF a = "" THEN b ELSE a

-----------------------------------------------------------------------------
(* JSON: json.dumps / json.loads, and the encoding of the remote payload.  *)
(* A JSON document is a tree of tagged tuples; an object keeps its members *)
(* as a sequence of <<key, value>> pairs in insertion order.               *)

JNum(n) == <<"num", n>>

JStr(s) == <<"str", s>>

JBool(b) == IF b THEN <<"true">> ELSE <<"false">>

JArr(elems) == <<"arr", elems>>

JObj(members) == <<"obj", members>>

\* a routine dumped with its done flag always false
DumpRoutineNotDone(r) ==
    JObj(<< <<"id", JNum(r.id)>>,
            <<"name", JStr(r.name)>>,
            <<"description", JStr(r.description)>>,
            <<"category", JStr(r.category)>>,
            <<"in_draw", JBool(r.in_draw)>>,
            <<"done", JBool(FALSE)>> >>)

\* the JSON object of one routine dict, keys in the order the dict was built
DumpRoutine(r) ==
    JObj(<< <<"id", JNum(r.id)>>,
            <<"name", JStr(r.name)>>,
            <<"description", JStr(r.description)>>,
            <<"category", JStr(r.category)>>,
            <<"in_draw", JBool(r.in_draw)>>,
            <<"done", JBool(r.done)>> >>)

\* json.dumps(payload) for payload = {"routines": [...], "next_id": n}
dumps(payload) ==
    JObj(<< <<"routines", JArr([i \in 1..Len(payload.routines) |->
                                    DumpRoutine(payload.routines[i])])>>,
            <<"next_id", JNum(payload.next_id)>> >>)

\* json.loads: a JSON document back to the Python value; on a repeated key
\* the last member wins
RECURSIVE loads(_)
loads(j) ==
    CASE j[1] = "num" -> j[2]
      [] j[1] = "str" -> j[2]
      [] j[1] = "true" -> TRUE
      [] j[1] = "false" -> FALSE
      [] j[1] = "null" -> None
      [] j[1] = "arr" -> [i \in 1..Len(j[2]) |-> loads(j[2][i])]
      [] j[1] = "obj" ->
            [k \in {j[2][i][1] : i \in 1..Len(j[2])} |->
                LET last == CHOOSE i \in 1..Len(j[2]) :
                                /\ j[2][i][1] = k
                                /\ \A m \in 1..Len(j[2]) : j[2][m][1] = k => m <= i
                IN  loads(j[2][last][2])]

\* isinstance(data, dict)
IsDict(j) == j[1] = "obj"

\* text that json.loads rejects
Garbage == <<"garbage">>

IsJson(text) == text # Garbage

-----------------------------------------------------------------------------
(* Persistence backend: load_data and persist_state *)

\* a shape check that asks for the routines key alone
ShapeOkRoutinesOnly(j) ==
    /\ IsDict(j)
    /\ "routines" \in DOMAIN loads(j)

\* the shape check of load_data on a parsed JSON document
ShapeOk(j) ==
    /\ IsDict(j)
    /\ "routines" \in DOMAIN loads(j)
    /\ "next_id" \in DOMAIN loads(j)

\* a load_data that returns the stored snapshot whatever the outcome of the read
load_data_unfailing(o) ==
    IF supabase
    THEN IF Len(table) = 0 THEN None
         ELSE IF ShapeOk(table[1].data) THEN Some(loads(table[1].data))
         ELSE None
    ELSE IF Len(file) = 0 THEN None
         ELSE IF ~IsJson(file[1]) THEN None
         ELSE IF ShapeOk(file[1]) THEN Some(loads(file[1]))
         ELSE None

\* load_data(): the snapshot dict, or None.  `o` is the outcome of the read:
\* "fail" is an exception raised by the query (remote) or by reading the
\* existing file (local); both are caught and give None.
load_data(o) ==
    IF supabase
    THEN IF o = "fail" THEN None
         ELSE IF Len(table) = 0 THEN None
         ELSE IF ShapeOk(table[1].data) THEN Some(loads(table[1].data))
         ELSE None
    ELSE IF Len(file) = 0 THEN None
         ELSE IF o = "fail" \/ ~IsJson(file[1]) THEN None
         ELSE IF ShapeOk(file[1]) THEN Some(loads(file[1]))
         ELSE None

\* the payload persist_state builds from the session state
Payload(rs, n) == [routines |-> rs, next_id |-> n]

\* what persist_state does with a write of outcome o: "ok" (stored), "failed"
\* (remote exception, caught) or "raised" (local exception, not caught)
Wrote(o) == IF o = "ok" THEN "ok" ELSE IF supabase THEN "failed" ELSE "raised"

\* the failed accesses an operation adds to the count
Fail(o) == IF o = "ok" THEN 0 ELSE 1

\* the record of what an operation did: the write it issued and the payload
\* of that write, and for draw_random the filter it was called with and the
\* routine it returned
Res(wrote, payload, filter, ret) ==
    [wrote |-> wrote, payload |-> payload, filter |-> filter, ret |-> ret]

\* no filter: the operation was not draw_random
NoFilter == ""

\* a persist_state that reports its write and stores nothing
persist_state_unsaved(rs, n, o) ==
    /\ UNCHANGED <<table, file>>
    /\ result' = Res(Wrote(o), Some(Payload(rs, n)), NoFilter, None)

\* a persist_state that saves the session state as it was before the operation
persist_state_stale(rs, n, o) ==
    /\ table' = IF supabase /\ o = "ok"
                THEN Some([id |-> 1, data |-> dumps(Payload(routines, next_id)),
                           updated_at |-> "now()"])
                ELSE table
    /\ file' = IF ~supabase /\ o = "ok"
               THEN Some(dumps(Payload(routines, next_id)))
               ELSE file
    /\ result' = Res(Wrote(o), Some(Payload(routines, next_id)), NoFilter, None)

\* a persist_state that saves the last routine of the list and not the rest
persist_state_partial(rs, n, o) ==
    /\ table' = IF supabase /\ o = "ok"
                THEN Some([id |-> 1,
                           data |-> dumps(Payload(SubSeq(rs, Len(rs), Len(rs)), n)),
                           updated_at |-> "now()"])
                ELSE table
    /\ file' = IF ~supabase /\ o = "ok"
               THEN Some(dumps(Payload(SubSeq(rs, Len(rs), Len(rs)), n)))
               ELSE file
    /\ result' = Res(Wrote(o), Some(Payload(rs, n)), NoFilter, None)

\* persist_state() with the session state holding rs and n, and the write
\* having outcome o
persist_state(rs, n, o) ==
    /\ table' = IF supabase /\ o = "ok"
                THEN Some([id |-> 1, data |-> dumps(Payload(rs, n)),
                           updated_at |-> "now()"])
                ELSE table
    /\ file' = IF ~supabase /\ o = "ok" THEN Some(dumps(Payload(rs, n))) ELSE file
    /\ result' = Res(Wrote(o), Some(Payload(rs, n)), NoFilter, None)

\* k more store accesses have failed
Count(k) ==
    /\ failures + k <= MaxFailures
    /\ failures' = failures + k

\* an operation that returns without calling persist_state
NoPersist(o, filter, ret) ==
    /\ o = "ok"
    /\ UNCHANGED <<table, file>>
    /\ result' = Res("none", None, filter, ret)

\* the stored snapshot as load_data returns it when the read succeeds
Stored == load_data("ok")

-----------------------------------------------------------------------------
(* Session state *)

DEFAULT_ROUTINES ==
    << [id |-> 1, name |-> "Warm-up Chromatics",
        description |-> "5 minutes of 1-2-3-4 chromatic patterns up and down the neck",
        category |-> "Warm-up", in_draw |-> TRUE, done |-> FALSE],
       [id |-> 2, name |-> "Major Scale Positions",
        description |-> "Play two-octave major scale in 5 positions with a metronome",
        category |-> "Scales", in_draw |-> TRUE, done |-> FALSE],
       [id |-> 3, name |-> "Chord Changes",
        description |-> "Practice G-C-D clean switches for 3 minutes",
        category |-> "Rhythm", in_draw |-> TRUE, done |-> FALSE] >>

\* the keys init_state leaves in st.session_state
SessionKeys == {"routines", "next_id", "selected_routine_id", "drawn_routine_id"}

\* init_state has run to completion: the script goes on to the handlers
Ready == ss_keys = SessionKeys

\* the session history starts afresh with the session's next_id
StartHistory(n) ==
    /\ assigned' = {}
    /\ next_id0' = n
    /\ creates' = 0

\* the second and third `if` of init_state
InitSelections ==
    /\ ss_keys' = SessionKeys
    /\ selected_routine_id' =
          IF "selected_routine_id" \in ss_keys THEN selected_routine_id ELSE None
    /\ drawn_routine_id' =
          IF "drawn_routine_id" \in ss_keys THEN drawn_routine_id ELSE None

\* init_state(), run at the top of the script while a session key is missing;
\* lo is the outcome of the read in load_data, po of the write in persist_state
init_state(lo, po) ==
    /\ ~Ready
    /\ UNCHANGED supabase
    /\ IF "routines" \notin ss_keys
       THEN LET data == load_data(lo)
            IN  /\ lo = "fail" => (supabase \/ Len(file) > 0)
                /\ IF data # None
                   THEN /\ routines' = Get(data[1], "routines", <<>>)
                        /\ next_id' = Get(data[1], "next_id", 1)
                        /\ NoPersist(po, NoFilter, None)
                        /\ Count(Fail(lo))
                        /\ InitSelections
                   ELSE /\ routines' = DEFAULT_ROUTINES
                        /\ next_id' = 4
                        /\ persist_state(routines', next_id', po)
                        /\ Count(Fail(lo) + Fail(po))
                        /\ IF Wrote(po) = "raised"
                           THEN /\ ss_keys' = ss_keys \cup {"routines", "next_id"}
                                /\ UNCHANGED <<selected_routine_id, drawn_routine_id>>
                           ELSE InitSelections
                /\ StartHistory(next_id')
       ELSE /\ lo = "ok"
            /\ InitSelections
            /\ NoPersist(po, NoFilter, None)
            /\ Count(0)
            /\ UNCHANGED <<routines, next_id, assigned, next_id0, creates>>

\* a new session (a new browser session, or the process restarted with the
\* same configuration): st.session_state is empty, the stores are kept
new_session ==
    /\ ss_keys # {}
    /\ ss_keys' = {}
    /\ routines' = <<>>
    /\ next_id' = 0
    /\ selected_routine_id' = None
    /\ drawn_routine_id' = None
    /\ result' = Res("none", None, NoFilter, None)
    /\ StartHistory(0)
    /\ UNCHANGED <<supabase, table, file, failures>>

-----------------------------------------------------------------------------
(* Routine operations *)

\* an index that falls back on the first routine when the id is not found
FirstIndexOrFirst(rs, routine_id) ==
    IF \E i \in 1..Len(rs) : rs[i].id = routine_id
    THEN CHOOSE i \in 1..Len(rs) :
            /\ rs[i].id = routine_id
            /\ \A m \in 1..(i - 1) : rs[m].id # routine_id
    ELSE IF Len(rs) > 0 THEN 1 ELSE 0

\* the index of the first routine with this id, 0 if there is none: where
\* `for r in routines: if r["id"] == routine_id: ... break` stops
FirstIndex(rs, routine_id) ==
    IF \E i \in 1..Len(rs) : rs[i].id = routine_id
    THEN CHOOSE i \in 1..Len(rs) :
            /\ rs[i].id = routine_id
            /\ \A m \in 1..(i - 1) : rs[m].id # routine_id
    ELSE 0

\* a category that is trimmed and nothing more
CategoryStripped(category) == strip(category)

\* the category add_routine and update_routine store
Category(category) == StrOr(strip(category), "General")

\* a routine whose id is its position in the list
NewRoutineByLength(id, name, description, category, in_draw) ==
    [id |-> Len(routines) + 1,
     name |-> strip(name),
     description |-> strip(description),
     category |-> Category(category),
     in_draw |-> in_draw,
     done |-> FALSE]

\* the dict add_routine builds
NewRoutine(id, name, description, category, in_draw) ==
    [id |-> id,
     name |-> strip(name),
     description |-> strip(description),
     category |-> Category(category),
     in_draw |-> in_draw,
     done |-> FALSE]

\* a counter that is not advanced
NextIdKept(n) == n

\* a counter that is advanced by two
NextIdSkipping(n) == n + 2

\* st.session_state.next_id += 1
NextId(n) == n + 1

\* add_routine(name, description, category, in_draw)
add_routine(name, description, category, in_draw, po) ==
    /\ routines' = Append(routines,
                          NewRoutine(next_id, name, description, category, in_draw))
    /\ next_id' = NextId(next_id)
    /\ persist_state(routines', next_id', po)
    /\ Count(Fail(po))
    /\ assigned' = assigned \cup {next_id}
    /\ creates' = creates + 1
    /\ UNCHANGED <<supabase, ss_keys, selected_routine_id, drawn_routine_id, next_id0>>

\* r.update({...}) of update_routine
UpdatedRoutine(r, name, description, category, in_draw) ==
    [r EXCEPT !.name = strip(name),
              !.description = strip(description),
              !.category = Category(category),
              !.in_draw = in_draw]

\* update_routine(routine_id, name, description, category, in_draw)
update_routine(routine_id, name, description, category, in_draw, po) ==
    LET i == FirstIndex(routines, routine_id)
    IN  /\ IF i # 0
           THEN /\ routines' = [routines EXCEPT ![i] =
                                   UpdatedRoutine(routines[i], name, description,
                                                  category, in_draw)]
                /\ persist_state(routines', next_id, po)
                /\ Count(Fail(po))
           ELSE /\ routines' = routines
                /\ NoPersist(po, NoFilter, None)
                /\ Count(0)
        /\ UNCHANGED <<supabase, ss_keys, next_id, selected_routine_id,
                       drawn_routine_id, assigned, next_id0, creates>>

\* the list comprehension of delete_routine
Without(rs, routine_id) == SelectSeq(rs, LAMBDA r : r.id # routine_id)

\* a drawn selection that delete_routine does not touch
DrawnKept(routine_id) == drawn_routine_id

\* a drawn selection that is cleared when another routine is deleted
DrawnClearedForOthers(routine_id) ==
    IF drawn_routine_id # Some(routine_id) THEN None ELSE drawn_routine_id

\* the drawn selection as delete_routine leaves it
DrawnAfterDelete(routine_id) ==
    IF drawn_routine_id = Some(routine_id) THEN None ELSE drawn_routine_id

\* delete_routine(routine_id)
delete_routine(routine_id, po) ==
    /\ routines' = Without(routines, routine_id)
    /\ drawn_routine_id' = DrawnAfterDelete(routine_id)
    /\ persist_state(routines', next_id, po)
    /\ Count(Fail(po))
    /\ UNCHANGED <<supabase, ss_keys, next_id, selected_routine_id,
                   assigned, next_id0, creates>>

\* a test that looks for the routine and not at its flag
MarkFound(i, value) == i # 0

\* the test of mark_done on the routine found at index i (0: not found)
MarkChanges(i, value) == i # 0 /\ routines[i].done # value

\* a mark_done that saves and leaves the done flag as it was
mark_done_unset(routine_id, value, po) ==
    LET i == FirstIndex(routines, routine_id)
    IN  /\ IF MarkChanges(i, value)
           THEN /\ routines' = routines
                /\ persist_state(routines', next_id, po)
                /\ Count(Fail(po))
           ELSE /\ routines' = routines
                /\ NoPersist(po, NoFilter, None)
                /\ Count(0)
        /\ UNCHANGED <<supabase, ss_keys, next_id, selected_routine_id,
                       drawn_routine_id, assigned, next_id0, creates>>

\* mark_done(routine_id, value)
mark_done(routine_id, value, po) ==
    LET i == FirstIndex(routines, routine_id)
    IN  /\ IF MarkChanges(i, value)
           THEN /\ routines' = [routines EXCEPT ![i].done = value]
                /\ persist_state(routines', next_id, po)
                /\ Count(Fail(po))
           ELSE /\ routines' = routines
                /\ NoPersist(po, NoFilter, None)
                /\ Count(0)
        /\ UNCHANGED <<supabase, ss_keys, next_id, selected_routine_id,
                       drawn_routine_id, assigned, next_id0, creates>>

\* a reset_done that saves only when a done flag was set
reset_done_lazy(po) ==
    /\ routines' = [i \in 1..Len(routines) |-> [routines[i] EXCEPT !.done = FALSE]]
    /\ drawn_routine_id' = None
    /\ IF routines' # routines
       THEN persist_state(routines', next_id, po) /\ Count(Fail(po))
       ELSE NoPersist(po, NoFilter, None) /\ Count(0)
    /\ UNCHANGED <<supabase, ss_keys, next_id, selected_routine_id,
                   assigned, next_id0, creates>>

\* reset_done()
reset_done(po) ==
    /\ routines' = [i \in 1..Len(routines) |-> [routines[i] EXCEPT !.done = FALSE]]
    /\ drawn_routine_id' = None
    /\ persist_state(routines', next_id, po)
    /\ Count(Fail(po))
    /\ UNCHANGED <<supabase, ss_keys, next_id, selected_routine_id,
                   assigned, next_id0, creates>>

\* the sentinel entry of the category filter
AllCategories == "All categories"

\* a pool that keeps the routines already done
PoolWithDone(rs, selected_category) ==
    SelectSeq(rs, LAMBDA r :
        /\ r.in_draw
        /\ (selected_category = AllCategories \/ r.category = selected_category))

\* the pool of draw_random
Pool(rs, selected_category) ==
    SelectSeq(rs, LAMBDA r :
        /\ r.in_draw
        /\ ~r.done
        /\ (selected_category = AllCategories \/ r.category = selected_category))

\* a draw_random that clears the drawn selection when the pool is empty
draw_random_clearing(selected_category) ==
    LET pool == Pool(routines, selected_category)
    IN  /\ IF Len(pool) = 0
           THEN /\ drawn_routine_id' = None
                /\ NoPersist("ok", selected_category, None)
                /\ Count(0)
           ELSE \E k \in 1..Len(pool) :
                /\ drawn_routine_id' = Some(pool[k].id)
                /\ NoPersist("ok", selected_category, Some(pool[k]))
                /\ Count(0)
        /\ UNCHANGED <<supabase, ss_keys, routines, next_id, selected_routine_id,
                       assigned, next_id0, creates>>

\* draw_random(selected_category); random.choice is any element of the pool
draw_random(selected_category) ==
    LET pool == Pool(routines, selected_category)
    IN  /\ IF Len(pool) = 0
           THEN /\ drawn_routine_id' = drawn_routine_id
                /\ NoPersist("ok", selected_category, None)
                /\ Count(0)
           ELSE \E k \in 1..Len(pool) :
                /\ drawn_routine_id' = Some(pool[k].id)
                /\ NoPersist("ok", selected_category, Some(pool[k]))
                /\ Count(0)
        /\ UNCHANGED <<supabase, ss_keys, routines, next_id, selected_routine_id,
                       assigned, next_id0, creates>>

-----------------------------------------------------------------------------
(* The handlers of the script *)

\* a handler that shows st.error and calls nothing
Rejected(po) ==
    /\ NoPersist(po, NoFilter, None)
    /\ Count(0)
    /\ UNCHANGED <<supabase, ss_keys, routines, next_id, selected_routine_id,
                   drawn_routine_id, assigned, next_id0, creates>>

\* a test of the name as typed, not trimmed
NonEmptyName(name) == name # ""

\* `if name.strip():` of the two forms
ValidName(name) == strip(name) # ""

\* the add form submitted
add_form(f, po) ==
    /\ Ready
    /\ IF ValidName(f.name)
       THEN /\ next_id < MaxNextId
            /\ add_routine(f.name, f.description, f.category, f.in_draw, po)
       ELSE Rejected(po)

\* the edit form submitted with "Save changes"
edit_form_save(selected_id, f, po) ==
    /\ Ready
    /\ IF ValidName(f.name)
       THEN update_routine(selected_id, f.name, f.description, f.category, f.in_draw, po)
       ELSE Rejected(po)

\* the edit form submitted with "Delete"
edit_form_delete(selected_id, po) ==
    /\ Ready
    /\ delete_routine(selected_id, po)

\* the "Mark as done" checkbox handed to mark_done
mark_done_checkbox(routine_id, value, po) ==
    /\ Ready
    /\ mark_done(routine_id, value, po)

\* the "Reset all done flags" button
reset_button(po) ==
    /\ Ready
    /\ reset_done(po)

\* the "Draw a routine" button
draw_button(selected_category) ==
    /\ Ready
    /\ draw_random(selected_category)

-----------------------------------------------------------------------------
(* The inputs the model draws *)

\* what the user types into the add form or the edit form
Forms ==
    { [name |-> "  ",     description |-> "",       category |-> "Scales",   in_draw |-> TRUE],
      [name |-> " Riff ", description |-> " slow",  category |-> "  ",       in_draw |-> FALSE],
      [name |-> "Riff",   description |-> "slow ",  category |-> "",         in_draw |-> FALSE] }

\* the routine ids the operations are called with
Ids == 1..MaxNextId

\* the routines the edit form is saved for: one default routine, the routines
\* added later and an id that is never assigned
EditIds == {1} \cup (4..MaxNextId)

\* the category filters draw_random is called with
Filters == {AllCategories, "Scales", "General"}

\* the same for SpecF, which follows fewer routines through failing stores
FormsF ==
    { [name |-> "",       description |-> "slow",   category |-> "Scales",   in_draw |-> FALSE],
      [name |-> "  ",     description |-> "",       category |-> "Scales",   in_draw |-> TRUE],
      [name |-> " Riff",  description |-> "",       category |-> "  ",       in_draw |-> TRUE],
      [name |-> "Riff ",  description |-> "",       category |-> "",         in_draw |-> TRUE] }

IdsF == {1, MaxNextId}

FiltersF == {"Warm-up", "Scales"}

\* the outcomes of a store access
Outcomes == {"ok", "fail"}

\* what the remote table can hold before the program first writes to it
InitialTables ==
    { None,
      Some([id |-> 1, data |-> <<"null">>, updated_at |-> "now()"]),
      Some([id |-> 1, data |-> JArr(<<>>), updated_at |-> "now()"]),
      Some([id |-> 1, data |-> JObj(<< <<"routines", JArr(<<>>)>> >>), updated_at |-> "now()"]),
      Some([id |-> 1, data |-> JObj(<< <<"next_id", JNum(4)>> >>), updated_at |-> "now()"]) }

\* what routines.json can hold before the program first writes it
InitialFiles ==
    { None,
      Some(Garbage),
      Some(JArr(<<>>)),
      Some(JObj(<< <<"routines", JArr(<<>>)>> >>)),
      Some(JObj(<< <<"next_id", JNum(4)>> >>)) }

-----------------------------------------------------------------------------
(* The history of calls, kept by SpecF *)

\* the stored content load_data reads, None if there is no row or no file
Content ==
    IF supabase
    THEN IF Len(table) = 0 THEN None ELSE Some(table[1].data)
    ELSE file

\* the keys of a JSON object
Keys(j) == {j[2][i][1] : i \in 1..Len(j[2])}

\* the stored content by shape: "absent", "valid" (an object with both keys)
\* or "malformed"
StoredShape ==
    IF Content = None THEN "absent"
    ELSE IF Content[1] = Garbage THEN "malformed"
    ELSE IF Content[1][1] = "obj" /\ {"routines", "next_id"} \subseteq Keys(Content[1])
         THEN "valid"
    ELSE "malformed"

\* the text is empty or holds whitespace only
Blank(text) == \A i \in 1..Len(text) : SubSeq(text, i, i) \in {" ", "\t", "\n"}

Found(routine_id) == \E i \in 1..Len(routines) : routines[i].id = routine_id

WasDone(routine_id) ==
    \E i \in 1..Len(routines) : routines[i].id = routine_id /\ routines[i].done

\* the record of a call: the operation; its id and value arguments; whether
\* the name and the category it was given are blank; whether the id was in the
\* collection, done, and the drawn selection when the call was made (for
\* reset_done: whether any routine was done); for init_state the shape of the
\* stored content, its next_id as `id`, and the outcome of the read; and
\* `prev`, the write of the call before if that was the same call with the
\* same arguments ("no" if it was another call)
Call(op) ==
    [op |-> op, id |-> 0, value |-> FALSE, blank |-> FALSE, blank_category |-> FALSE,
     found |-> FALSE, was_done |-> FALSE,
     was_drawn |-> FALSE, stored |-> "none", read |-> "none", prev |-> "no"]

NoCall == Call("none")

CallOn(op, id, value) ==
    [Call(op) EXCEPT !.id = id,
                     !.value = value,
                     !.found = Found(id),
                     !.was_done = WasDone(id),
                     !.was_drawn = (drawn_routine_id = Some(id)),
                     !.prev = IF hist.op = op /\ hist.id = id /\ hist.value = value
                              THEN result.wrote
                              ELSE "no"]

-----------------------------------------------------------------------------
(* Spec: the session with stores that never fail *)

Init ==
    /\ supabase \in BOOLEAN
    /\ table \in (IF supabase THEN InitialTables ELSE {None})
    /\ file \in (IF supabase THEN {None} ELSE InitialFiles)
    /\ ss_keys = {}
    /\ routines = <<>>
    /\ next_id = 0
    /\ selected_routine_id = None
    /\ drawn_routine_id = None
    /\ failures = 0
    /\ result = Res("none", None, NoFilter, None)
    /\ hist = NoCall
    /\ assigned = {}
    /\ next_id0 = 0
    /\ creates = 0

Startup == init_state("ok", "ok") /\ UNCHANGED hist

NewSession == new_session /\ UNCHANGED hist

AddForm == \E f \in Forms : add_form(f, "ok") /\ UNCHANGED hist

EditSave == \E id \in EditIds, f \in Forms : edit_form_save(id, f, "ok") /\ UNCHANGED hist

EditDelete == \E id \in Ids : edit_form_delete(id, "ok") /\ UNCHANGED hist

MarkDone == \E id \in Ids, v \in BOOLEAN : mark_done_checkbox(id, v, "ok") /\ UNCHANGED hist

ResetDone == reset_button("ok") /\ UNCHANGED hist

DrawRandom == \E c \in Filters : draw_button(c) /\ UNCHANGED hist

Next ==
    \/ Startup
    \/ NewSession
    \/ AddForm
    \/ EditSave
    \/ EditDelete
    \/ MarkDone
    \/ ResetDone
    \/ DrawRandom

Spec == Init /\ [][Next]_vars

-----------------------------------------------------------------------------
(* SpecF: the session with stores that can fail, and the history of calls *)

StartupF ==
    \E lo \in Outcomes, po \in Outcomes :
        /\ init_state(lo, po)
        /\ hist' = [Call("init_state") EXCEPT !.value = ("routines" \notin ss_keys),
                                              !.id = IF Stored # None
                                                     THEN Stored[1].next_id
                                                     ELSE 0,
                                              !.stored = StoredShape,
                                              !.read = lo]

NewSessionF == new_session /\ hist' = NoCall

AddFormF ==
    \E f \in FormsF, po \in Outcomes :
        /\ add_form(f, po)
        /\ hist' = [Call("add_form") EXCEPT !.id = next_id,
                                            !.blank = Blank(f.name),
                                            !.blank_category = Blank(f.category)]

EditSaveF ==
    \E id \in IdsF, f \in FormsF, po \in Outcomes :
        /\ edit_form_save(id, f, po)
        /\ hist' = [CallOn("edit_form_save", id, FALSE) EXCEPT
                        !.blank = Blank(f.name),
                        !.blank_category = Blank(f.category)]

EditDeleteF ==
    \E id \in IdsF, po \in Outcomes :
        /\ edit_form_delete(id, po)
        /\ hist' = CallOn("delete_routine", id, FALSE)

MarkDoneF ==
    \E id \in IdsF, v \in BOOLEAN, po \in Outcomes :
        /\ mark_done_checkbox(id, v, po)
        /\ hist' = CallOn("mark_done", id, v)

ResetDoneF ==
    \E po \in Outcomes :
        /\ reset_button(po)
        /\ hist' = [Call("reset_done") EXCEPT
                        !.was_done = \E i \in 1..Len(routines) : routines[i].done]

DrawRandomF ==
    \E c \in FiltersF :
        /\ draw_button(c)
        /\ hist' = Call("draw_random")

NextF ==
    \/ StartupF
    \/ NewSessionF
    \/ AddFormF
    \/ EditSaveF
    \/ EditDeleteF
    \/ MarkDoneF
    \/ ResetDoneF
    \/ DrawRandomF

SpecF == Init /\ [][NextF]_vars

-----------------------------------------------------------------------------
(* Properties of the ids and of next_id *)

\* the ids of a list of routines
IdsOf(rs) == {rs[i].id : i \in 1..Len(rs)}

\* C1: after any sequence of add_routine and delete_routine calls in an
\* initialised session, the ids of the routines in the collection are
\* pairwise distinct.
C1_UniqueIds ==
    Ready => \A i, j \in 1..Len(routines) :
                 routines[i].id = routines[j].id => i = j

\* C1 happens: two routines were added, a default routine was deleted, and
\* both added routines are in the collection next to the other defaults
C1_Witness ==
    /\ Ready
    /\ creates >= 2
    /\ ~Found(1)
    /\ Len(routines) = 4
    /\ IdsOf(routines) = {2, 3, 4, 5}

\* C2: in every state of a session after init_state, next_id is strictly
\* greater than the id of every routine in the collection and of every
\* routine that add_routine gave an id in the session, and no operation of
\* the session decreases next_id.
C2_NextIdAboveIds ==
    [][/\ Ready' => \A id \in IdsOf(routines') \cup assigned' : id < next_id'
       /\ (Ready /\ Ready') => next_id' >= next_id]_vars

\* C2 happens: an id assigned in the session is no longer in the collection,
\* and next_id is still above it
C2_Witness ==
    /\ Ready
    /\ \E id \in assigned : ~Found(id) /\ id < next_id
    /\ routines # <<>>

\* the session has its routines and its next_id
Hydrated == {"routines", "next_id"} \subseteq ss_keys

\* C3: a session with N add_routine calls, however they are interleaved with
\* delete_routine and the other operations, has next_id equal to its value at
\* the start of the session plus N; delete_routine never changes next_id.
C3_NextIdCountsCreates ==
    [][/\ Hydrated' => next_id' = next_id0' + creates'
       /\ hist'.op = "delete_routine" => next_id' = next_id]_vars

\* C3 happens: two add_routine calls in a session that started with next_id
\* 4, and then the deletion of a routine of the collection
C3_Witness ==
    /\ Ready
    /\ hist.op = "delete_routine"
    /\ hist.found
    /\ next_id0 = 4
    /\ creates = 2
    /\ next_id = 6
    /\ Len(routines) = 4

-----------------------------------------------------------------------------
(* Properties of the bootstrap (SpecF) *)

\* exactly the three default routines: ids 1, 2, 3, all in the draw, none done
IsDefaults(rs) ==
    /\ Len(rs) = 3
    /\ \A i \in 1..3 : rs[i].id = i /\ rs[i].in_draw /\ ~rs[i].done
    /\ rs[1].category = "Warm-up"
    /\ rs[2].category = "Scales"
    /\ rs[3].category = "Rhythm"

\* init_state has just run in a fresh session
FreshInit == hist.op = "init_state" /\ hist.value

\* C4 as stated: when init_state runs in a fresh session and nothing is
\* stored, the session holds exactly the three default routines and next_id 4,
\* the drawn selection is none, and the active backend holds a snapshot with
\* exactly that content before any other operation runs.
C4_Original ==
    (FreshInit /\ hist.stored = "absent") =>
        /\ IsDefaults(routines)
        /\ next_id = 4
        /\ "drawn_routine_id" \in ss_keys
        /\ drawn_routine_id = None
        /\ Stored = Some(Payload(routines, next_id))

\* C4: when init_state runs in a fresh session and nothing is stored, the
\* session holds exactly the three default routines and next_id 4, and a save
\* of a snapshot with exactly that content has been attempted before any other
\* operation runs; the backend holds that snapshot when the save succeeded,
\* and the drawn selection is none unless the write to the local file raised,
\* which ends init_state before it sets the selections.
C4_Bootstrap ==
    (FreshInit /\ hist.stored = "absent") =>
        /\ IsDefaults(routines)
        /\ next_id = 4
        /\ result.wrote \in {"ok", "failed", "raised"}
        /\ result.payload = Some(Payload(routines, next_id))
        /\ result.wrote = "ok" => Stored = Some(Payload(routines, next_id))
        /\ result.wrote # "raised" =>
              "drawn_routine_id" \in ss_keys /\ drawn_routine_id = None
        /\ result.wrote = "raised" => ~Ready

\* C4 happens: the bootstrap of a fresh session over an empty store, saved
C4_Witness ==
    /\ FreshInit
    /\ hist.stored = "absent"
    /\ result.wrote = "ok"
    /\ Stored # None
    /\ Ready

\* C5: on both backends, stored content that is not a mapping with both the
\* routines key and the next_id key is loaded as absent, and init_state then
\* does the default bootstrap and does not hydrate from the stored content.
C5_MalformedIsAbsent ==
    /\ StoredShape = "malformed" => (load_data("ok") = None /\ load_data("fail") = None)
    /\ (FreshInit /\ hist.stored = "malformed") =>
          /\ IsDefaults(routines)
          /\ next_id = 4
          /\ result.payload = Some(Payload(routines, next_id))

\* C5 happens: a fresh session over a local file with malformed content has
\* been bootstrapped with the defaults, which replaced the file
C5_Witness ==
    /\ FreshInit
    /\ hist.stored = "malformed"
    /\ ~supabase
    /\ result.wrote = "ok"
    /\ StoredShape = "valid"
    /\ IsDefaults(routines)

-----------------------------------------------------------------------------
(* Properties of the draw (Spec) *)

\* r may be drawn under the filter
Eligible(r, filter) ==
    /\ r.in_draw = TRUE
    /\ r.done = FALSE
    /\ (filter = AllCategories \/ r.category = filter)

\* C6: for any category filter, draw_random returns a routine only if it is
\* in the collection, in the draw, not done, and of the filter's category
\* unless the filter is "All categories"; it returns None if and only if the
\* collection has no such routine.
C6_DrawsEligible ==
    result.filter # NoFilter =>
        /\ result.ret # None =>
              /\ result.ret[1] \in Range(routines)
              /\ Eligible(result.ret[1], result.filter)
        /\ result.ret = None <=>
              ~\E i \in 1..Len(routines) : Eligible(routines[i], result.filter)

\* C6 happens: a draw over all categories returned a routine while the
\* collection also held a routine that is done and one that is out of the draw
C6_Witness ==
    /\ result.filter = AllCategories
    /\ result.ret # None
    /\ \E i \in 1..Len(routines) : routines[i].done
    /\ \E i \in 1..Len(routines) : ~routines[i].in_draw

-----------------------------------------------------------------------------
(* Properties of delete_routine and mark_done (SpecF) *)

\* C7: when delete_routine is called with the id that is the drawn selection,
\* the drawn selection is none afterwards; called with any other id it leaves
\* the drawn selection as it was.
C7_DeleteClearsDrawn ==
    [][hist'.op = "delete_routine" =>
          IF drawn_routine_id = Some(hist'.id)
          THEN drawn_routine_id' = None
          ELSE drawn_routine_id' = drawn_routine_id]_vars

\* C7 happens: the drawn routine was in the collection and has been deleted
C7_Witness ==
    /\ hist.op = "delete_routine"
    /\ hist.was_drawn
    /\ hist.found
    /\ drawn_routine_id = None
    /\ ~Found(hist.id)

\* the state of the session and of both stores
Snapshot == <<routines, next_id, selected_routine_id, drawn_routine_id, table, file>>

\* C8: mark_done writes a snapshot only when it changes the done flag of the
\* routine: of two consecutive calls mark_done(id, True) on a routine of the
\* collection that was not done, the first writes and the second does not,
\* and the second leaves the state as the first left it.
C8_MarkDoneWritesOnChange ==
    [][hist'.op = "mark_done" =>
          /\ result'.wrote # "none" <=> (hist'.found /\ hist'.was_done # hist'.value)
          /\ result'.wrote = "none" => Snapshot' = Snapshot
          /\ (hist'.value /\ hist'.prev # "no" /\ hist.found /\ ~hist.was_done) =>
                /\ hist'.prev \in {"ok", "failed", "raised"}
                /\ result'.wrote = "none"
                /\ Snapshot' = Snapshot]_vars

\* C8 happens: mark_done(id, True) has been called twice in a row on a routine
\* that was not done; the first call wrote, the second did not
C8_Witness ==
    /\ hist.op = "mark_done"
    /\ hist.value
    /\ hist.found
    /\ hist.was_done
    /\ hist.prev = "ok"
    /\ result.wrote = "none"

-----------------------------------------------------------------------------
(* Properties of the form input (SpecF) *)

\* the routine with this id in a list of routines that has it
RoutineOf(rs, routine_id) == rs[CHOOSE i \in 1..Len(rs) : rs[i].id = routine_id]

\* C9: no routine in the collection ever has the empty string as its
\* category: add_routine and update_routine store "General" whenever the
\* category they are given is empty or whitespace only.
C9_CategoryNeverEmpty ==
    [][/\ \A i \in 1..Len(routines') : routines'[i].category # ""
       /\ (hist'.op = "add_form" /\ ~hist'.blank /\ hist'.blank_category) =>
             routines'[Len(routines')].category = "General"
       /\ (/\ hist'.op = "edit_form_save"
           /\ hist'.found
           /\ ~hist'.blank
           /\ hist'.blank_category) =>
             RoutineOf(routines', hist'.id).category = "General"]_vars

\* C9 happens: a default routine has been updated with a whitespace-only
\* category while a routine added with one is in the collection, and both
\* are stored with the category "General"
C9_Witness ==
    /\ hist.op = "edit_form_save"
    /\ hist.found
    /\ hist.blank_category
    /\ ~hist.blank
    /\ RoutineOf(routines, hist.id).category = "General"
    /\ hist.id = 1
    /\ Found(4)
    /\ RoutineOf(routines, 4).category = "General"

\* C10: the add form and the edit form submitted with a name that is empty
\* after trimming are rejected before anything is changed: the collection,
\* next_id and the stored snapshot stay as they were and nothing is written;
\* no routine with an empty name is ever in the collection.
C10_BlankNameRejected ==
    [][/\ \A i \in 1..Len(routines') : routines'[i].name # ""
       /\ (hist'.op \in {"add_form", "edit_form_save"} /\ hist'.blank) =>
             /\ routines' = routines
             /\ next_id' = next_id
             /\ table' = table
             /\ file' = file
             /\ result'.wrote = "none"]_vars

\* C10 happens: the edit form was submitted with a whitespace-only name for a
\* routine of the collection, which still has its name
C10_Witness ==
    /\ hist.op = "edit_form_save"
    /\ hist.blank
    /\ hist.found
    /\ RoutineOf(routines, hist.id).name = "Warm-up Chromatics"
    /\ result.wrote = "none"

-----------------------------------------------------------------------------
(* Properties of persistence *)

\* the last operation called persist_state and the write failed
SaveFailed == result.wrote \in {"failed", "raised"}

\* C11 as stated: on both backends a failing save inside a mutating operation
\* or inside the bootstrap is caught and does not abort the operation or the
\* session: the exception does not leave persist_state, init_state runs to
\* its end, and the session keeps the state the operation gave it.
C11_Original ==
    SaveFailed =>
        /\ result.wrote = "failed"
        /\ Ready
        /\ result.payload = Some(Payload(routines, next_id))


\* the fields of a routine dict
RoutineFields == {"id", "name", "description", "category", "in_draw", "done"}

\* two snapshots are equal field for field: the same next_id, and the same
\* routines in the same order
SameSnapshot(a, b) ==
    /\ DOMAIN a = {"routines", "next_id"}
    /\ DOMAIN b = {"routines", "next_id"}
    /\ a.next_id = b.next_id
    /\ Len(a.routines) = Len(b.routines)
    /\ \A i \in 1..Len(a.routines) :
          /\ DOMAIN a.routines[i] = RoutineFields
          /\ DOMAIN b.routines[i] = RoutineFields
          /\ \A k \in RoutineFields : a.routines[i][k] = b.routines[i][k]

\* C12: on both backends, after a save that succeeded a load returns a
\* snapshot equal to the saved one field for field: the same routines in the
\* same order and the same next_id.
C12_RoundTrip ==
    result.wrote = "ok" =>
        /\ load_data("ok") # None
        /\ SameSnapshot(load_data("ok")[1], result.payload[1])

\* C12 happens: a snapshot of four routines, one of them done and one out of
\* the draw, was saved to the remote table and is loaded back
C12_Witness ==
    /\ supabase
    /\ result.wrote = "ok"
    /\ Len(result.payload[1].routines) = 4
    /\ \E i \in 1..4 : result.payload[1].routines[i].done
    /\ \E i \in 1..4 : ~result.payload[1].routines[i].in_draw
    /\ load_data("ok") = result.payload


\* the in-memory state that persist_state saves
Memory == Payload(routines, next_id)

\* C13: when every write succeeds, the persisted snapshot equals the whole
\* in-memory state {routines, next_id} after init_state and after each
\* add_routine, update_routine, delete_routine, mark_done and reset_done; an
\* operation that changes routines or next_id saves the full snapshot before
\* it returns.
C13_PersistedEqualsMemory ==
    /\ [](Ready => Stored = Some(Memory))
    /\ [][(Ready /\ Ready' /\ Memory' # Memory) =>
             /\ result'.wrote = "ok"
             /\ result'.payload = Some(Memory')]_vars

\* C13 happens: after an addition, a deletion and a routine marked done, the
\* last operation saved and the stored snapshot is the in-memory state
C13_Witness ==
    /\ Ready
    /\ creates >= 1
    /\ ~Found(2)
    /\ \E i \in 1..Len(routines) : routines[i].done
    /\ result.wrote = "ok"
    /\ Stored = Some(Memory)


-----------------------------------------------------------------------------
(* Properties of the calls with an id that is not in the collection (SpecF) *)

\* the call just made was given an id that is not in the collection
NotFoundCall(op) == hist'.op = op /\ ~hist'.found

\* C14 as stated: update_routine, mark_done and delete_routine called with an
\* id that is not in the collection are silent no-ops: routines, next_id and
\* the drawn selection are unchanged and no write is issued, so the persisted
\* snapshot is left as it was.
C14_Original ==
    [][(\E op \in {"edit_form_save", "mark_done", "delete_routine"} : NotFoundCall(op)) =>
          /\ Snapshot' = Snapshot
          /\ result'.wrote = "none"]_vars

\* C14: update_routine, mark_done and delete_routine called with an id that
\* is not in the collection leave routines, next_id and the selections
\* unchanged; update_routine and mark_done issue no write and leave both
\* stores as they were; delete_routine still calls persist_state, which saves
\* the unchanged in-memory state, and the stores are as they were only when
\* that write fails.
C14_NotFoundNoOp ==
    [][/\ (\E op \in {"edit_form_save", "mark_done", "delete_routine"} : NotFoundCall(op)) =>
             /\ routines' = routines
             /\ next_id' = next_id
             /\ drawn_routine_id' = drawn_routine_id
             /\ selected_routine_id' = selected_routine_id
       /\ (NotFoundCall("edit_form_save") \/ NotFoundCall("mark_done")) =>
             /\ result'.wrote = "none"
             /\ table' = table
             /\ file' = file
       /\ NotFoundCall("delete_routine") =>
             /\ result'.wrote \in {"ok", "failed", "raised"}
             /\ result'.payload = Some(Memory)
             /\ result'.wrote # "ok" => (table' = table /\ file' = file)]_vars

\* C14 happens: delete_routine was called with an id that is not in the
\* collection; the collection is whole and a save was written
C14_Witness ==
    /\ hist.op = "delete_routine"
    /\ ~hist.found
    /\ hist.id = MaxNextId
    /\ Len(routines) >= 3
    /\ result.wrote = "ok"
    /\ result.payload = Some(Memory)


-----------------------------------------------------------------------------
(* Properties of the frame of draw_random and of reset_done *)

\* the step is a call of draw_random
DrawStep == result'.filter # NoFilter

\* C15: draw_random changes nothing but the drawn selection: no field of any
\* routine, not next_id, and it writes no snapshot; when no routine is
\* eligible it leaves the drawn selection as well, so an id drawn before
\* stays selected.
C15_DrawFrame ==
    [][DrawStep =>
          /\ routines' = routines
          /\ next_id' = next_id
          /\ selected_routine_id' = selected_routine_id
          /\ ss_keys' = ss_keys
          /\ table' = table
          /\ file' = file
          /\ result'.wrote = "none"
          /\ (~\E i \in 1..Len(routines) : Eligible(routines[i], result'.filter)) =>
                drawn_routine_id' = drawn_routine_id]_vars

\* C15 happens: a draw found no eligible routine for its filter and the
\* routine drawn before, now done, is still the drawn selection
C15_Witness ==
    /\ result.filter = "Scales"
    /\ result.ret = None
    /\ drawn_routine_id = Some(2)
    /\ WasDone(2)


-----------------------------------------------------------------------------
(* Properties of the persisted snapshot under failing saves (SpecF) *)

\* C16: a save that fails leaves the persisted snapshot as it was, behind
\* the in-memory state; every save writes the whole snapshot, so after the
\* next save that succeeds the persisted snapshot equals the complete
\* in-memory state, the changes whose own save failed included.
C16_LagUntilNextSave ==
    /\ [](result.wrote = "ok" => Stored = Some(Memory))
    /\ [][result'.wrote \in {"failed", "raised"} =>
             (table' = table /\ file' = file)]_vars

\* C16 happens: the save of a deletion failed, and the save of the next call
\* (the same deletion again, which changes nothing) succeeded: the persisted
\* snapshot is the in-memory state, without the deleted routine
C16_Witness ==
    /\ hist.op = "delete_routine"
    /\ hist.prev \in {"failed", "raised"}
    /\ ~hist.found
    /\ hist.id = 1
    /\ failures >= 1
    /\ result.wrote = "ok"
    /\ Stored = Some(Memory)
    /\ IdsOf(Stored[1].routines) = {2, 3}


\* C17: reset_done, from any state, leaves every routine with done false and
\* the drawn selection none; it changes no other field of a routine, adds and
\* removes no routine, leaves next_id, and always calls persist_state with
\* the whole snapshot, even when no routine was done.
C17_ResetDone ==
    [][hist'.op = "reset_done" =>
          /\ Len(routines') = Len(routines)
          /\ \A i \in 1..Len(routines) :
                /\ routines'[i].done = FALSE
                /\ \A k \in RoutineFields \ {"done"} : routines'[i][k] = routines[i][k]
          /\ drawn_routine_id' = None
          /\ next_id' = next_id
          /\ selected_routine_id' = selected_routine_id
          /\ result'.wrote \in {"ok", "failed", "raised"}
          /\ result'.payload = Some(Memory')]_vars

\* C17 happens: reset_done was called when no routine was done, and it wrote
\* a snapshot
C17_Witness ==
    /\ hist.op = "reset_done"
    /\ ~hist.was_done
    /\ result.wrote = "ok"
    /\ drawn_routine_id = None
    /\ Stored = Some(Memory)
    /\ \A i \in 1..Len(routines) : ~routines[i].done


-----------------------------------------------------------------------------
(* Properties of the drawn selection (Spec) *)

\* C18: in every state the drawn selection is none or the id of a routine
\* that is in the collection; it never names a routine that was deleted.
C18_DrawnExists ==
    Ready => (drawn_routine_id = None \/ Found(drawn_routine_id[1]))

\* C18 happens: a routine of the collection is the drawn selection after
\* another routine was deleted and one was added
C18_Witness ==
    /\ Ready
    /\ drawn_routine_id = Some(3)
    /\ Found(3)
    /\ ~Found(2)
    /\ creates >= 1


-----------------------------------------------------------------------------
(* Properties of a failing load (SpecF) *)

\* init_state has just run in a fresh session on the remote backend, the
\* table held a valid snapshot and the query raised
RemoteLoadFailed ==
    /\ supabase
    /\ FreshInit
    /\ hist.stored = "valid"
    /\ hist.read = "fail"

\* C19: on the remote backend, when the table holds a valid snapshot and the
\* load at the start of the session raises, init_state takes the defaults
\* and saves them at once; when that save succeeds the stored snapshot is
\* replaced by the three default routines and next_id 4.
C19_FailedLoadOverwrites ==
    RemoteLoadFailed =>
        /\ IsDefaults(routines)
        /\ next_id = 4
        /\ result.wrote \in {"ok", "failed"}
        /\ result.payload = Some(Memory)
        /\ result.wrote = "ok" =>
              /\ Stored # None
              /\ IsDefaults(Stored[1].routines)
              /\ Stored[1].next_id = 4

\* C19 happens: the table held a snapshot with next_id 5, the load raised,
\* and the table now holds the defaults with next_id 4
C19_Witness ==
    /\ RemoteLoadFailed
    /\ hist.id = 5
    /\ result.wrote = "ok"
    /\ Stored = Some(Payload(DEFAULT_ROUTINES, 4))


-----------------------------------------------------------------------------
(* SpecC: the practice cycle.  A session is set up with the operations of   *)
(* Spec; then "Draw a routine" and "Mark as done" are repeated with one     *)
(* filter until the draw finds nothing, and "Reset all done flags" follows. *)
(* hist holds the record of the cycle.                                      *)

\* the routines of the collection that may be drawn under the filter
EligibleIds(filter) ==
    {routines[i].id : i \in {j \in 1..Len(routines) : Eligible(routines[j], filter)}}

\* what the user types into the forms before the cycle: the forms of Spec and
\* a routine that is in the draw, with a category to be trimmed
FormsC ==
    Forms \cup
    { [name |-> "Lick", description |-> "", category |-> " Scales ", in_draw |-> TRUE] }

AddFormC == \E f \in FormsC : add_form(f, "ok") /\ UNCHANGED hist

EditSaveC == \E id \in EditIds, f \in FormsC : edit_form_save(id, f, "ok") /\ UNCHANGED hist

\* the session before the cycle: init_state, the two forms, the checkbox
Setup ==
    /\ hist.op = "none"
    /\ (Startup \/ AddFormC \/ EditSaveC \/ EditDelete \/ MarkDone)

\* the cycle starts with the filter chosen in the selectbox; k is the number
\* of eligible routines at that moment
StartCycle ==
    \E c \in Filters :
        /\ Ready
        /\ hist.op = "none"
        /\ hist' = [op |-> "cycle", filter |-> c, k |-> Cardinality(EligibleIds(c)),
                    round |-> 0, picked |-> <<>>, phase |-> "draw"]
        /\ UNCHANGED <<supabase, table, file, ss_keys, routines, next_id,
                       selected_routine_id, drawn_routine_id, failures, result,
                       assigned, next_id0, creates>>

\* one round: the "Draw a routine" button with the filter of the cycle
CycleDraw ==
    /\ hist.op = "cycle"
    /\ hist.phase = "draw"
    /\ draw_button(hist.filter)
    /\ hist' = [hist EXCEPT
                  !.round = @ + 1,
                  !.picked = IF result'.ret = None THEN @ ELSE Append(@, result'.ret[1].id),
                  !.phase = IF result'.ret = None THEN "reset" ELSE "mark"]

\* the "Mark as done" checkbox ticked for the routine just drawn
CycleMark ==
    /\ hist.op = "cycle"
    /\ hist.phase = "mark"
    /\ mark_done_checkbox(drawn_routine_id[1], TRUE, "ok")
    /\ hist' = [hist EXCEPT !.phase = "draw"]

\* the "Reset all done flags" button after the draw that found nothing
CycleReset ==
    /\ hist.op = "cycle"
    /\ hist.phase = "reset"
    /\ reset_button("ok")
    /\ hist' = [hist EXCEPT !.phase = "done"]

NextC ==
    \/ Setup
    \/ StartCycle
    \/ CycleDraw
    \/ CycleMark
    \/ CycleReset

SpecC == Init /\ [][NextC]_vars

\* the ids in the sequence are pairwise distinct
Distinct(ids) == \A i, j \in 1..Len(ids) : ids[i] = ids[j] => i = j

\* C20: from a state with k eligible routines for a filter, repeating
\* draw_random(filter) and mark_done(drawn id, True) returns k pairwise
\* distinct routines in the first k rounds and None in round k + 1, where the
\* cycle ends; the reset_done that follows makes eligible again exactly the
\* routines that are in the draw.
C20_CycleTerminates ==
    hist.op = "cycle" =>
        /\ hist.round <= hist.k + 1
        /\ Distinct(hist.picked)
        /\ hist.phase = "mark" =>
              /\ hist.round <= hist.k
              /\ Len(hist.picked) = hist.round
              /\ result.ret # None
        /\ hist.phase = "draw" => Len(hist.picked) = hist.round
        /\ hist.phase \in {"reset", "done"} =>
              /\ hist.round = hist.k + 1
              /\ Len(hist.picked) = hist.k
        /\ hist.phase = "reset" => result.ret = None
        /\ hist.phase = "done" =>
              \A i \in 1..Len(routines) :
                 /\ Eligible(routines[i], AllCategories) <=> routines[i].in_draw
                 /\ Eligible(routines[i], hist.filter) <=>
                       /\ routines[i].in_draw
                       /\ (hist.filter = AllCategories \/ routines[i].category = hist.filter)

\* C20 happens: a cycle over the category "Scales" with two eligible
\* routines, one of them added in the session, next to a routine that is out
\* of the draw: it drew both, found nothing in the third round and was reset
C20_Witness ==
    /\ hist.op = "cycle"
    /\ hist.phase = "done"
    /\ hist.filter = "Scales"
    /\ hist.k = 2
    /\ hist.round = 3
    /\ Range(hist.picked) = {2, 4}
    /\ \E i \in 1..Len(routines) : ~routines[i].in_draw
    /\ EligibleIds("Scales") = {2, 4}

====
